---- MODULE Spec2Model ----
(***************************************************************************)
(* Model of src/app.py: the Whisper Arabic speech-to-text service.         *)
(*                                                                         *)
(*   POST /transcribe  (transcribe_audio)  validates the upload's          *)
(*       extension, stores it in a temporary file, calls the external      *)
(*       model, annotates dialect terms and removes the temporary file.    *)
(*   GET  /model-info  (get_model_info)    returns the static model size.  *)
(*                                                                         *)
(* Strings are sequences of one-character strings, so that splitext,       *)
(* lower, `in` and str.replace are computed and not assumed.  Literal      *)
(* Arabic messages of the source are single ASCII tokens here.             *)
(* temperature is counted in tenths (0.2 is 2).  The wall-clock fields     *)
(* start_time / processing_time_seconds are not modelled.                  *)
(***************************************************************************)
EXTENDS Integers, Sequences, FiniteSets, TLC

\* ------------------------------------------------------------------ bounds
NumReqs == 2
MaxTextLen == 3
MaxTermLen == 2
MaxPairs == 2
MaxSegs == 2

Reqs == 1..NumReqs
\* names tempfile can hand out; one per request is always enough
TempIds == 1..NumReqs

\* --------------------------------------------------------- string helpers
Range(s) == {s[i] : i \in 1..Len(s)}

SeqsOf(S, lo, hi) == UNION {[1..n -> S] : n \in lo..hi}

\* p occurs in s at index i
OccursAt(s, p, i) ==
    /\ i >= 1
    /\ i + Len(p) - 1 <= Len(s)
    /\ SubSeq(s, i, i + Len(p) - 1) = p

\* Python: p in s
Contains(s, p) == \E i \in 1..(Len(s) - Len(p) + 1) : OccursAt(s, p, i)

\* Python: s.find(p, i), 1-based, 0 when absent
Find(s, p, i) ==
    LET hits == {j \in i..(Len(s) - Len(p) + 1) : OccursAt(s, p, j)}
    IN  IF hits = {} THEN 0
        ELSE CHOOSE j \in hits : \A k \in hits : j <= k

RECURSIVE ReplaceFrom(_, _, _, _)
ReplaceFrom(s, old, new, i) ==
    LET j == Find(s, old, i)
    IN  IF j = 0 THEN SubSeq(s, i, Len(s))
        ELSE SubSeq(s, i, j - 1) \o new
             \o ReplaceFrom(s, old, new, j + Len(old))

\* a plausible slip: str.replace(old, new, 1)
ReplaceFirstOnly(s, old, new) ==
    LET j == Find(s, old, 1)
    IN  IF j = 0 THEN s
        ELSE SubSeq(s, 1, j - 1) \o new \o SubSeq(s, j + Len(old), Len(s))

\* Python: s.replace(old, new) for a non-empty old: the leftmost
\* non-overlapping occurrences, found by scanning from the left
Replace(s, old, new) == ReplaceFrom(s, old, new, 1)

RECURSIVE Join(_, _)
\* Python: sep.join(parts)
Join(parts, sep) ==
    IF parts = <<>> THEN <<>>
    ELSE IF Len(parts) = 1 THEN parts[1]
    ELSE parts[1] \o sep \o Join(Tail(parts), sep)

UpperLetters ==
    <<"A","B","C","D","E","F","G","H","I","J","K","L","M",
      "N","O","P","Q","R","S","T","U","V","W","X","Y","Z">>
LowerLetters ==
    <<"a","b","c","d","e","f","g","h","i","j","k","l","m",
      "n","o","p","q","r","s","t","u","v","w","x","y","z">>

LowerChar(c) ==
    IF \E i \in 1..Len(UpperLetters) : UpperLetters[i] = c
    THEN LowerLetters[CHOOSE i \in 1..Len(UpperLetters) : UpperLetters[i] = c]
    ELSE c

\* Python: s.lower()
Lower(s) == [i \in 1..Len(s) |-> LowerChar(s[i])]

\* Python: p.rfind(c), 1-based, 0 when absent
RFind(p, c) ==
    LET hits == {i \in 1..Len(p) : p[i] = c}
    IN  IF hits = {} THEN 0
        ELSE CHOOSE i \in hits : \A k \in hits : k <= i

\* Python: os.path.splitext(p)[1]: from the last dot of the last path
\* component, unless that component has only dots before it
splitext(p) ==
    LET sepIndex == RFind(p, "/")
        dotIndex == RFind(p, ".")
    IN  IF /\ dotIndex > sepIndex
           /\ \E k \in (sepIndex + 1)..(dotIndex - 1) : p[k] # "."
        THEN SubSeq(p, dotIndex, Len(p))
        ELSE <<>>

\* ------------------------------------------------------------ the program
VARIABLES
    MODEL_SIZE,       \* module-level MODEL_SIZE
    DIALECT_MAPPING,  \* module-level dict, a sequence of <<dialect, fusha>>
    fs,               \* the temporary-file namespace
    req,              \* one handler activation per request
    modelInfo,        \* the last /model-info response
    text,             \* argument of a direct post_process_arabic_text call
    processed_text,   \* its result
    ppc               \* "off", "ready" or "done" for that direct call

vars == <<MODEL_SIZE, DIALECT_MAPPING, fs, req, modelInfo,
          text, processed_text, ppc>>

ConfiguredSize == "tiny"

valid_extensions ==
    << <<".","m","p","3">>, <<".","w","a","v">>, <<".","m","4","a">>,
       <<".","o","g","g">>, <<".","f","l","a","c">> >>

UNSUPPORTED_FORMAT == "unsupported file format, supported formats: "
PROCESSING_FAILED == "error while processing the file: "
INITIAL_PROMPT == "arabic text with levantine dialect and colloquial words"

\* ------------------------------------------------------------ input sets
Alphabet == {"a", "b"}
Texts == SeqsOf(Alphabet, 0, MaxTextLen)
Terms == SeqsOf(Alphabet, 1, MaxTermLen)
\* standard forms: one character each
Fushas == {<<c>> : c \in Alphabet}

\* dicts of at most MaxPairs entries, in insertion order, keys distinct
Mappings ==
    {m \in SeqsOf(Terms \X Fushas, 0, MaxPairs) :
        \A i, j \in 1..Len(m) : i # j => m[i][1] # m[j][1]}

\* the shipped (empty) dict and two extended ones
ConfiguredMappings ==
    { <<>>,
      << <<<<"a">>, <<"b">>>> >>,
      << <<<<"a">>, <<"b">>>>, <<<<"b">>, <<"a">>>> >> }

\* an accepted name in mixed case, a refused one, and a name that is all
\* extension (splitext gives it none)
Filenames ==
    { <<"a",".","M","p","3">>,
      <<"a",".","t","x","t">>,
      <<".","o","g","g">> }
Languages == {"ar", "en"}
Temperatures == {2, 15}
BeamSizes == {5, 0}
UploadBytes == { <<1, 2>> }

Inputs ==
    [filename : Filenames, file_bytes : UploadBytes, language : Languages,
     include_dialect_info : BOOLEAN, temperature : Temperatures,
     beam_size : BeamSizes]

\* the defaults of the handler's signature, with a good and a bad filename
DefaultInputs ==
    [filename : {<<"a",".","m","p","3">>, <<"a",".","t","x","t">>},
     file_bytes : UploadBytes, language : {"ar"},
     include_dialect_info : {TRUE}, temperature : {2}, beam_size : {5}]

\* what the external model may return
RawTexts == { <<"a">>, <<"b","a">> }
Segment(i, t) == [text |-> t, start |-> i - 1, end |-> i]
RawSegments ==
    UNION {{[i \in 1..n |-> Segment(i, f[i])] : f \in [1..n -> RawTexts]} :
            n \in 0..MaxSegs}
RawResults == [text : RawTexts, segments : RawSegments]
DefaultRawResults ==
    { [text |-> <<"a">>, segments |-> <<Segment(1, <<"a">>)>>] }

\* what the external calls may raise
FailureTexts == { <<"decode failed">> }

\* ------------------------------------------------------------ blank values
NoFile == [exists |-> FALSE, owner |-> 0, suffix |-> <<>>, data |-> <<>>]
NoResult == [text |-> <<>>, segments |-> <<>>]
NoBody ==
    [status |-> "none", text |-> <<>>, segments |-> <<>>,
     language |-> "", model_used |-> ""]
NoResponse == [status_code |-> 0, detail |-> <<>>, body |-> NoBody]
NoException == [type |-> "none", status_code |-> 0, detail |-> <<>>]
NoInfo ==
    [model_size |-> "", supported_languages |-> "",
     arabic_dialects_support |-> FALSE, status |-> ""]

BlankReq(p) ==
    [pc |-> p, filename |-> <<>>, file_bytes |-> <<>>, language |-> "",
     include_dialect_info |-> FALSE, temperature |-> 0, beam_size |-> 0,
     file_ext |-> <<>>, temp_file |-> 0, temp_file_path |-> 0,
     raw |-> NoResult, result |-> NoResult, calls |-> <<>>, io |-> {},
     raised |-> NoException, raisedAt |-> "", response |-> NoResponse]

\* ------------------------------------------------- post_process_arabic_text
\* f"{dialect} ({fusha})"
Annotation(dialect, fusha) == dialect \o <<" ", "(">> \o fusha \o <<")">>

RECURSIVE PostProcessFrom(_, _)
PostProcessFrom(current, k) ==
    IF k > Len(DIALECT_MAPPING) THEN current
    ELSE LET dialect == DIALECT_MAPPING[k][1]
             fusha == DIALECT_MAPPING[k][2]
         IN  PostProcessFrom(
                 IF Contains(current, dialect)
                 THEN Replace(current, dialect, Annotation(dialect, fusha))
                 ELSE current,
                 k + 1)

post_process_arabic_text(t) == PostProcessFrom(t, 1)

\* ------------------------------------------------------- handler helpers
HTTPException(code, detail) ==
    [type |-> "HTTPException", status_code |-> code, detail |-> detail]
Failure(msg) ==
    [type |-> "Exception", status_code |-> 0, detail |-> msg]

\* str(e): Starlette's HTTPException prints "status: detail", a plain
\* exception prints its message
ExcStr(e) ==
    IF e.type = "HTTPException"
    THEN <<ToString(e.status_code), ":", " ">> \o e.detail
    ELSE e.detail

UnsupportedFormat ==
    HTTPException(400,
        <<UNSUPPORTED_FORMAT>> \o Join(valid_extensions, <<",", " ">>))

\* a slip: the handler forgets the cause
ExceptHandlerNoCause(e) ==
    [status_code |-> 500, detail |-> <<PROCESSING_FAILED>>, body |-> NoBody]

\* except Exception as e: raise HTTPException(500, ...str(e))
ExceptHandler(e) ==
    [status_code |-> 500,
     detail |-> <<PROCESSING_FAILED>> \o ExcStr(e),
     body |-> NoBody]

\* a slip: the check is skipped
ExtensionOkAlways(file_ext) == TRUE

\* file_ext in valid_extensions
ExtensionOk(file_ext) == file_ext \in Range(valid_extensions)

Clamp(x, lo, hi) == IF x < lo THEN lo ELSE IF x > hi THEN hi ELSE x

\* a slip: out-of-range values are clamped
BuildOptionsClamped(language, temperature, beam_size) ==
    [language |-> language, task |-> "transcribe",
     temperature |-> Clamp(temperature, 0, 10),
     beam_size |-> IF beam_size < 1 THEN 1 ELSE beam_size,
     initial_prompt |-> INITIAL_PROMPT]

\* the options dict
BuildOptions(language, temperature, beam_size) ==
    [language |-> language, task |-> "transcribe",
     temperature |-> temperature, beam_size |-> beam_size,
     initial_prompt |-> INITIAL_PROMPT]

\* a slip: the toggle is ignored
DialectEnabledIgnoringToggle(language, include_dialect_info) ==
    language = "ar"

\* language == "ar" and include_dialect_info
DialectEnabled(language, include_dialect_info) ==
    language = "ar" /\ include_dialect_info

\* a slip: every segment receives the processed top-level text
PostProcessResultShared(result, enabled) ==
    IF enabled
    THEN [text |-> post_process_arabic_text(result.text),
          segments |->
            [i \in 1..Len(result.segments) |->
                [result.segments[i] EXCEPT
                    !.text = post_process_arabic_text(result.text)]]]
    ELSE result

\* result["text"] and each segment["text"] rewritten in place
PostProcessResult(result, enabled) ==
    IF enabled
    THEN [text |-> post_process_arabic_text(result.text),
          segments |->
            [i \in 1..Len(result.segments) |->
                [result.segments[i] EXCEPT
                    !.text = post_process_arabic_text(@)]]]
    ELSE result

\* a slip: a hard-coded identifier
SuccessBodyHardCoded(result, language) ==
    [status |-> "success", text |-> result.text,
     segments |-> result.segments, language |-> language,
     model_used |-> "base"]

\* the success dict
SuccessBody(result, language) ==
    [status |-> "success", text |-> result.text,
     segments |-> result.segments, language |-> language,
     model_used |-> MODEL_SIZE]

\* a slip: one fixed file name for every upload
FreshNamesShared(f) == TempIds

\* tempfile creates a file under a name that does not exist yet
FreshNames(f) == {n \in TempIds : ~f[n].exists}

\* the dict get_model_info returns
ModelInfoBody ==
    [model_size |-> MODEL_SIZE, supported_languages |-> "multiple",
     arabic_dialects_support |-> TRUE, status |-> "ready"]

\* ------------------------------------------------------------------- Init
Init ==
    /\ MODEL_SIZE = ConfiguredSize
    /\ DIALECT_MAPPING \in ConfiguredMappings
    /\ fs = [n \in TempIds |-> NoFile]
    /\ req = [r \in Reqs |-> BlankReq("idle")]
    /\ modelInfo = NoInfo
    /\ text = <<>>
    /\ processed_text = <<>>
    /\ ppc = "off"

InitPost ==
    /\ MODEL_SIZE = ConfiguredSize
    /\ DIALECT_MAPPING \in Mappings
    /\ fs = [n \in TempIds |-> NoFile]
    /\ req = [r \in Reqs |-> BlankReq("idle")]
    /\ modelInfo = NoInfo
    /\ text \in Texts
    /\ processed_text = <<>>
    /\ ppc = "ready"

\* ---------------------------------------------------------------- actions
Shared == <<MODEL_SIZE, DIALECT_MAPPING, modelInfo, text, processed_text, ppc>>

\* no other request is being handled
Quiescent(r) == \A q \in Reqs \ {r} : req[q].pc \in {"idle", "closed"}

\* a request arrives; requests are numbered in order of arrival
Receive(r, in) ==
    /\ req[r].pc = "idle"
    /\ \A q \in Reqs : q < r => req[q].pc # "idle"
    /\ req' = [req EXCEPT ![r] =
                [BlankReq("validate") EXCEPT
                    !.filename = in.filename,
                    !.file_bytes = in.file_bytes,
                    !.language = in.language,
                    !.include_dialect_info = in.include_dialect_info,
                    !.temperature = in.temperature,
                    !.beam_size = in.beam_size]]
    /\ UNCHANGED <<fs, Shared>>

\* the next request arrives once the previous one has been answered
ReceiveNext(r, in) == Quiescent(r) /\ Receive(r, in)

\* lines 62-68, and 108-112 when the check raises
Validate(r) ==
    /\ req[r].pc = "validate"
    /\ LET file_ext == Lower(splitext(req[r].filename))
       IN  IF ExtensionOk(file_ext)
           THEN req' = [req EXCEPT ![r].file_ext = file_ext,
                                   ![r].pc = "create"]
           ELSE req' = [req EXCEPT
                            ![r].file_ext = file_ext,
                            ![r].raised = UnsupportedFormat,
                            ![r].raisedAt = "validate",
                            ![r].response = ExceptHandler(UnsupportedFormat),
                            ![r].pc = "done"]
    /\ UNCHANGED <<fs, Shared>>

\* line 71: NamedTemporaryFile(delete=False, suffix=file_ext)
Create(r) ==
    /\ req[r].pc = "create"
    /\ \E n \in FreshNames(fs) :
        /\ fs' = [fs EXCEPT ![n] =
                    [exists |-> TRUE, owner |-> r,
                     suffix |-> req[r].file_ext, data |-> <<>>]]
        /\ req' = [req EXCEPT
                    ![r].temp_file = n,
                    ![r].io = @ \cup {[op |-> "create", owner |-> r]},
                    ![r].pc = "read"]
    /\ UNCHANGED Shared

\* lines 72-73: the upload is read and written through the open handle
ReadWrite(r) ==
    /\ req[r].pc = "read"
    /\ LET n == req[r].temp_file
       IN  /\ fs' = IF fs[n].exists
                    THEN [fs EXCEPT ![n].data = req[r].file_bytes]
                    ELSE fs
           /\ req' = [req EXCEPT
                        ![r].temp_file_path = n,
                        ![r].io = @ \cup {[op |-> "read", owner |-> r],
                                          [op |-> "write",
                                           owner |-> fs[n].owner]},
                        ![r].pc = "transcribe"]
    /\ UNCHANGED Shared

\* line 72: file.read() raises; the with block closes the file, which stays
ReadFail(r, msg) ==
    /\ req[r].pc = "read"
    /\ req' = [req EXCEPT
                ![r].io = @ \cup {[op |-> "read", owner |-> r]},
                ![r].raised = Failure(msg),
                ![r].raisedAt = "read",
                ![r].response = ExceptHandler(Failure(msg)),
                ![r].pc = "done"]
    /\ UNCHANGED <<fs, Shared>>

TranscribeCall(r) ==
    [path |-> req[r].temp_file_path,
     options |-> BuildOptions(req[r].language, req[r].temperature,
                              req[r].beam_size)]

\* lines 76-85: model.transcribe returns
Transcribe(r, raw) ==
    /\ req[r].pc = "transcribe"
    /\ fs[req[r].temp_file_path].exists
    /\ req' = [req EXCEPT
                ![r].calls = Append(@, TranscribeCall(r)),
                ![r].io = @ \cup
                    {[op |-> "transcribe",
                      owner |-> fs[req[r].temp_file_path].owner]},
                ![r].raw = raw,
                ![r].result = raw,
                ![r].pc = "finish"]
    /\ UNCHANGED <<fs, Shared>>

\* lines 76-85 and 108-112: model.transcribe raises
TranscribeFail(r, msg) ==
    /\ req[r].pc = "transcribe"
    /\ req' = [req EXCEPT
                ![r].calls = Append(@, TranscribeCall(r)),
                ![r].io = @ \cup
                    {[op |-> "transcribe",
                      owner |-> fs[req[r].temp_file_path].owner]},
                ![r].raised = Failure(msg),
                ![r].raisedAt = "transcribe",
                ![r].response = ExceptHandler(Failure(msg)),
                ![r].pc = "done"]
    /\ UNCHANGED <<fs, Shared>>

\* lines 88-106: post-processing, os.unlink and the success dict
Finish(r) ==
    /\ req[r].pc = "finish"
    /\ LET n == req[r].temp_file_path
           result == PostProcessResult(req[r].result,
                        DialectEnabled(req[r].language,
                                       req[r].include_dialect_info))
       IN  IF fs[n].exists
           THEN /\ fs' = [fs EXCEPT ![n] = NoFile]
                /\ req' = [req EXCEPT
                            ![r].result = result,
                            ![r].io = @ \cup {[op |-> "unlink",
                                               owner |-> fs[n].owner]},
                            ![r].response =
                                [status_code |-> 200, detail |-> <<>>,
                                 body |-> SuccessBody(result,
                                                      req[r].language)],
                            ![r].pc = "done"]
           ELSE /\ fs' = fs
                /\ req' = [req EXCEPT
                            ![r].result = result,
                            ![r].raised = Failure(<<"no such file">>),
                            ![r].raisedAt = "unlink",
                            ![r].response =
                                ExceptHandler(Failure(<<"no such file">>)),
                            ![r].pc = "done"]
    /\ UNCHANGED Shared

\* the framework sends the response; the activation is gone
Deliver(r) ==
    /\ req[r].pc = "done"
    /\ req' = [req EXCEPT ![r] = BlankReq("closed")]
    /\ UNCHANGED <<fs, Shared>>

\* lines 114-122
get_model_info ==
    /\ modelInfo' = ModelInfoBody
    /\ UNCHANGED <<MODEL_SIZE, DIALECT_MAPPING, fs, req,
                   text, processed_text, ppc>>

\* a direct call of post_process_arabic_text
ApplyPostProcess ==
    /\ ppc = "ready"
    /\ processed_text' = post_process_arabic_text(text)
    /\ ppc' = "done"
    /\ UNCHANGED <<MODEL_SIZE, DIALECT_MAPPING, fs, req, modelInfo, text>>

\* --------------------------------------------------------- specifications
\* requests served one after another, over the full input sets
Next ==
    \/ \E r \in Reqs : \E in \in Inputs : ReceiveNext(r, in)
    \/ \E r \in Reqs : Validate(r)
    \/ \E r \in Reqs : Create(r)
    \/ \E r \in Reqs : ReadWrite(r)
    \/ \E r \in Reqs : \E msg \in FailureTexts : ReadFail(r, msg)
    \/ \E r \in Reqs : \E raw \in RawResults : Transcribe(r, raw)
    \/ \E r \in Reqs : \E msg \in FailureTexts : TranscribeFail(r, msg)
    \/ \E r \in Reqs : Finish(r)
    \/ \E r \in Reqs : Deliver(r)
    \/ get_model_info

Spec == Init /\ [][Next]_vars

\* requests handled concurrently, with the default parameters
NextConc ==
    \/ \E r \in Reqs : \E in \in DefaultInputs : Receive(r, in)
    \/ \E r \in Reqs : Validate(r)
    \/ \E r \in Reqs : Create(r)
    \/ \E r \in Reqs : ReadWrite(r)
    \/ \E r \in Reqs : \E msg \in FailureTexts : ReadFail(r, msg)
    \/ \E r \in Reqs : \E raw \in DefaultRawResults : Transcribe(r, raw)
    \/ \E r \in Reqs : \E msg \in FailureTexts : TranscribeFail(r, msg)
    \/ \E r \in Reqs : Finish(r)
    \/ \E r \in Reqs : Deliver(r)
    \/ get_model_info

SpecConc == Init /\ [][NextConc]_vars

\* post_process_arabic_text on its own, over all texts and mappings
NextPost == ApplyPostProcess

SpecPost == InitPost /\ [][NextPost]_vars

\* ------------------------------------------------------------- properties
Done(r) == req[r].pc = "done"
Succeeded(r) == Done(r) /\ req[r].response.status_code = 200
InvalidExtension(r) ==
    Lower(splitext(req[r].filename)) \notin Range(valid_extensions)
Started(r) == req[r].pc \notin {"idle", "closed"}
OwnsFile(r) == \E n \in TempIds : fs[n].exists /\ fs[n].owner = r
Toggled(r) == req[r].language = "ar" /\ req[r].include_dialect_info

\* C1: a request whose lower-cased extension is outside the allow-list ends
\* with status 400 and a message that lists the accepted extensions.
C1_RejectedWith400 ==
    \A r \in Reqs :
        (Done(r) /\ InvalidExtension(r)) =>
            /\ req[r].response.status_code = 400
            /\ \A i \in 1..Len(valid_extensions) :
                 Contains(req[r].response.detail, valid_extensions[i])

\* C2: once the handler of a request that passed the extension check has
\* returned, the temporary file it created no longer exists.
C2_TempFileRemoved ==
    \A r \in Reqs :
        (Done(r) /\ ~InvalidExtension(r)) => ~OwnsFile(r)

\* C3: when the external transcribe call raises, the handler ends with
\* status 500, the message contains the failure text, the external call was
\* made exactly once and no success body is returned.
C3_TranscribeFailure ==
    \A r \in Reqs :
        (Done(r) /\ req[r].raisedAt = "transcribe") =>
            /\ req[r].response.status_code = 500
            /\ req[r].raised.detail # <<>>
            /\ Contains(req[r].response.detail, req[r].raised.detail)
            /\ Len(req[r].calls) = 1
            /\ req[r].response.body = NoBody

C3_Witness ==
    \E r \in Reqs :
        /\ Done(r)
        /\ req[r].raisedAt = "transcribe"
        /\ OwnsFile(r)

\* C4: a request whose extension is outside the allow-list is rejected
\* before any I/O: no temporary file is created or written, the upload is
\* not read and the external model is not called.
C4_RejectBeforeIO ==
    \A r \in Reqs :
        (Started(r) /\ InvalidExtension(r)) =>
            /\ req[r].pc \in {"validate", "done"}
            /\ req[r].io = {}
            /\ req[r].calls = <<>>
            /\ req[r].temp_file = 0
            /\ ~OwnsFile(r)
            /\ Done(r) => /\ req[r].response.status_code >= 400
                          /\ req[r].response.body = NoBody

C4_Witness ==
    \E r \in Reqs :
        /\ Done(r)
        /\ InvalidExtension(r)
        /\ req[r].raisedAt = "validate"
        /\ req[r].filename = <<".","o","g","g">>

\* C5: with include_dialect_info false or a language other than "ar", the
\* returned text and segments are exactly what the external call produced,
\* whatever the mapping holds.
C5_NoPostProcessing ==
    \A r \in Reqs :
        (Succeeded(r) /\ ~Toggled(r)) =>
            /\ req[r].response.body.text = req[r].raw.text
            /\ req[r].response.body.segments = req[r].raw.segments

C5_Witness ==
    \E r \in Reqs :
        /\ Succeeded(r)
        /\ req[r].language = "ar"
        /\ ~req[r].include_dialect_info
        /\ DIALECT_MAPPING # <<>>
        /\ post_process_arabic_text(req[r].raw.text) # req[r].raw.text
        /\ req[r].raw.segments # <<>>

\* the claim's reading of one step: every occurrence of the term, taken
\* from the left, becomes "dialect (fusha)"
RECURSIVE AnnotateEvery(_, _, _)
AnnotateEvery(s, dialect, fusha) ==
    IF s = <<>> THEN <<>>
    ELSE IF OccursAt(s, dialect, 1)
    THEN dialect \o <<" ", "(">> \o fusha \o <<")">>
         \o AnnotateEvery(SubSeq(s, Len(dialect) + 1, Len(s)), dialect, fusha)
    ELSE <<Head(s)>> \o AnnotateEvery(Tail(s), dialect, fusha)

\* the fold over the pairs in iteration order
RECURSIVE FoldPairs(_, _)
FoldPairs(s, m) ==
    IF m = <<>> THEN s
    ELSE LET last == m[Len(m)]
         IN  AnnotateEvery(FoldPairs(s, SubSeq(m, 1, Len(m) - 1)),
                           last[1], last[2])

RECURSIVE CountOccurrences(_, _)
CountOccurrences(s, p) ==
    IF Len(s) < Len(p) THEN 0
    ELSE IF OccursAt(s, p, 1)
    THEN 1 + CountOccurrences(SubSeq(s, Len(p) + 1, Len(s)), p)
    ELSE CountOccurrences(Tail(s), p)

\* C6: post_process_arabic_text is the fold over the mapping's pairs in
\* iteration order, each step rewriting every occurrence of the term in the
\* current string; a single pair adds one annotation per occurrence.
C6_FoldInOrder ==
    ppc = "done" =>
        /\ processed_text = FoldPairs(text, DIALECT_MAPPING)
        /\ Len(DIALECT_MAPPING) = 1 =>
             Len(processed_text) =
                Len(text) + CountOccurrences(text, DIALECT_MAPPING[1][1])
                            * (Len(DIALECT_MAPPING[1][2]) + 3)

\* a later pair annotates text that an earlier pair inserted
C6_Witness ==
    /\ ppc = "done"
    /\ Len(DIALECT_MAPPING) = 2
    /\ Contains(text, DIALECT_MAPPING[1][1])
    /\ ~Contains(text, DIALECT_MAPPING[2][1])
    /\ Contains(DIALECT_MAPPING[1][2], DIALECT_MAPPING[2][1])
    /\ Contains(processed_text,
                DIALECT_MAPPING[2][1] \o <<" ", "(">>
                \o DIALECT_MAPPING[2][2] \o <<")">>)
    /\ CountOccurrences(text, DIALECT_MAPPING[1][1]) = 2

\* C7: the options handed to the external call carry the request's
\* language, temperature and beam_size as received, with task "transcribe"
\* and the fixed initial prompt.
C7_OptionsPassedThrough ==
    \A r \in Reqs : \A i \in 1..Len(req[r].calls) :
        LET options == req[r].calls[i].options
        IN  /\ options.language = req[r].language
            /\ options.temperature = req[r].temperature
            /\ options.beam_size = req[r].beam_size
            /\ options.task = "transcribe"
            /\ options.initial_prompt = INITIAL_PROMPT

C7_Witness ==
    \E r \in Reqs :
        /\ Len(req[r].calls) = 1
        /\ req[r].temperature > 10
        /\ req[r].beam_size < 1
        /\ req[r].language # "ar"

\* C8: /model-info returns the model size configured at startup and every
\* successful /transcribe response names the same size; no step changes
\* MODEL_SIZE or DIALECT_MAPPING.
C8_StaticConfiguration ==
    /\ [](/\ ModelInfoBody.model_size = ConfiguredSize
          /\ modelInfo # NoInfo => modelInfo.model_size = ConfiguredSize
          /\ \A r \in Reqs :
                Succeeded(r) =>
                    req[r].response.body.model_used = ConfiguredSize)
    /\ [][/\ MODEL_SIZE' = MODEL_SIZE
          /\ DIALECT_MAPPING' = DIALECT_MAPPING]_vars

C8_Witness ==
    /\ modelInfo # NoInfo
    /\ \E r, q \in Reqs :
        /\ req[q].pc = "closed"
        /\ Succeeded(r)
        /\ OwnsFile(q)

\* C9: under any interleaving, every temporary-file operation of a request
\* (create, write, transcribe, unlink) acts on the file that request
\* created; a step changes the state of one request only and leaves
\* MODEL_SIZE and DIALECT_MAPPING alone.
C9_OwnFileOnly ==
    /\ [](\A r \in Reqs : \A e \in req[r].io : e.owner = r)
    /\ [][/\ MODEL_SIZE' = MODEL_SIZE
          /\ DIALECT_MAPPING' = DIALECT_MAPPING
          /\ \A r, q \in Reqs :
                (r # q /\ req'[r] # req[r]) => req'[q] = req[q]]_vars

\* two requests are in flight at once, each past its transcribe call
C9_Witness ==
    \E r, q \in Reqs :
        /\ r # q
        /\ req[r].pc = "finish"
        /\ req[q].pc = "finish"
        /\ req[r].temp_file_path # req[q].temp_file_path

\* C10: a successful response returns the external model's segments in the
\* same number and order, with the non-text fields untouched, and every
\* segment text is the post-processing of that segment's own text.
C10_SegmentsKept ==
    \A r \in Reqs :
        Succeeded(r) =>
            LET out == req[r].response.body.segments
                raw == req[r].raw.segments
            IN  /\ Len(out) = Len(raw)
                /\ \A i \in 1..Len(raw) :
                     /\ out[i].start = raw[i].start
                     /\ out[i].end = raw[i].end
                     /\ out[i].text =
                          IF Toggled(r)
                          THEN post_process_arabic_text(raw[i].text)
                          ELSE raw[i].text

C10_Witness ==
    \E r \in Reqs :
        /\ Succeeded(r)
        /\ Toggled(r)
        /\ Len(req[r].raw.segments) = 2
        /\ req[r].raw.segments[1].text # req[r].raw.segments[2].text
        /\ req[r].raw.segments[1].text # req[r].raw.text
        /\ req[r].response.body.segments[1].text
              # req[r].raw.segments[1].text
        /\ req[r].response.body.segments[1].text
              # req[r].response.body.text

====
